---- MODULE Spec2Model ----
(***************************************************************************)
(* Model of x3f_extract.c: the command-line driver of the X3F extractor.   *)
(*                                                                         *)
(* Strings are sequences of one-character strings, so that lengths,        *)
(* concatenation, strrchr and the bounded copies are computed as the C     *)
(* code computes them.  The argument vector is read lazily: the option     *)
(* part of argv is drawn token by token while the parsing loop runs, the   *)
(* file-list part (infiles) is fixed in Init.                              *)
(***************************************************************************)
EXTENDS Integers, Sequences, FiniteSets, TLC

(***************************************************************************)
(* Bounds of the model                                                     *)
(***************************************************************************)
MaxFiles == 2
MaxArgFiles == 1
MaxOpts == 3
MaxFlags == 2
MaxLen == 3

(***************************************************************************)
(* Program constants                                                       *)
(***************************************************************************)
MAXPATH == 1000
EXTMAX == 10
MAXOUTPATH == MAXPATH + EXTMAX
MAXTMPPATH == MAXOUTPATH + EXTMAX

X3F_OK == "X3F_OK"
X3F_ERR == "X3F_ERR"
NULL == <<"NULL">>

(***************************************************************************)
(* Strings                                                                 *)
(***************************************************************************)
Rep(c, n) == [k \in 1..n |-> c]

EXT_JPG == <<".", "j", "p", "g">>
EXT_META == <<".", "m", "e", "t", "a">>
EXT_RAW == <<".", "r", "a", "w">>
EXT_TIF == <<".", "t", "i", "f">>
EXT_DNG == <<".", "d", "n", "g">>
EXT_PPM == <<".", "p", "p", "m">>
EXT_CSV == <<".", "c", "s", "v">>
EXT_TMP == <<".", "t", "m", "p">>
SLASH == <<"/">>

strnlen(s, maxlen) == IF Len(s) < maxlen THEN Len(s) ELSE maxlen

\* strchr in place of strrchr: the first occurrence
strrchr_first(s, c) ==
  LET occ == {k \in 1..Len(s) : s[k] = c}
  IN IF occ = {} THEN 0 ELSE CHOOSE k \in occ : \A m \in occ : k <= m

\* index of the last occurrence of c in s, 0 for a NULL result
strrchr(s, c) ==
  LET occ == {k \in 1..Len(s) : s[k] = c}
  IN IF occ = {} THEN 0 ELSE CHOOSE k \in occ : \A m \in occ : m <= k

safecpy_trunc(dst, src, dst_size) ==
  IF strnlen(src, dst_size + 1) > dst_size
  THEN [ret |-> 0, dst |-> SubSeq(src, 1, dst_size)]
  ELSE [ret |-> 0, dst |-> src]

safecpy(dst, src, dst_size) ==
  IF strnlen(src, dst_size + 1) > dst_size
  THEN [ret |-> 1, dst |-> dst]
  ELSE [ret |-> 0, dst |-> src]

safecat(dst, src, dst_size) ==
  IF strnlen(dst, dst_size + 1) + strnlen(src, dst_size + 1) > dst_size
  THEN [ret |-> 1, dst |-> dst]
  ELSE [ret |-> 0, dst |-> dst \o src]

\* err = ... in place of err += ...: only the last step decides
make_paths_last_err(inpath, outdir, ext, tmppath, outpath, pathbuffer) ==
  LET ptr == strrchr(inpath, "/")
      b1 == safecpy(pathbuffer, outdir, MAXPATH)
      b2 == safecat(b1.dst, SLASH, MAXPATH)
      b3 == IF ptr = 0
            THEN safecat(b2.dst, inpath, MAXPATH)
            ELSE safecat(b2.dst, SubSeq(inpath, ptr + 1, Len(inpath)), MAXPATH)
      plainoutpath == IF outdir = NULL THEN inpath ELSE b3.dst
      o1 == safecpy(outpath, plainoutpath, MAXOUTPATH)
      o2 == safecat(o1.dst, ext, MAXOUTPATH)
      t1 == safecpy(tmppath, o2.dst, MAXTMPPATH)
      t2 == safecat(t1.dst, EXT_TMP, MAXTMPPATH)
  IN [err |-> t2.ret,
      outpath |-> o2.dst,
      tmppath |-> t2.dst,
      plainoutpath |-> plainoutpath,
      steps |-> IF outdir = NULL THEN 4 ELSE 7]

\* the extension is not appended to outpath
make_paths_no_ext(inpath, outdir, ext, tmppath, outpath, pathbuffer) ==
  LET ptr == strrchr(inpath, "/")
      b1 == safecpy(pathbuffer, outdir, MAXPATH)
      b2 == safecat(b1.dst, SLASH, MAXPATH)
      b3 == IF ptr = 0
            THEN safecat(b2.dst, inpath, MAXPATH)
            ELSE safecat(b2.dst, SubSeq(inpath, ptr + 1, Len(inpath)), MAXPATH)
      err0 == IF outdir = NULL THEN 0 ELSE b1.ret + b2.ret + b3.ret
      plainoutpath == IF outdir = NULL THEN inpath ELSE b3.dst
      o1 == safecpy(outpath, plainoutpath, MAXOUTPATH)
      t1 == safecpy(tmppath, o1.dst, MAXTMPPATH)
      t2 == safecat(t1.dst, EXT_TMP, MAXTMPPATH)
  IN [err |-> err0 + o1.ret + t1.ret + t2.ret,
      outpath |-> o1.dst,
      tmppath |-> t2.dst,
      plainoutpath |-> plainoutpath,
      steps |-> IF outdir = NULL THEN 3 ELSE 6]

\* steps is the number of bounded copies and concatenations executed and
\* rets their results in the order of execution.
\* tmppath, outpath and pathbuffer are the contents the three buffers have
\* when make_paths starts: the caller's arrays and the local pathbuffer are
\* uninitialized, so their contents are arbitrary.
make_paths(inpath, outdir, ext, tmppath, outpath, pathbuffer) ==
  LET ptr == strrchr(inpath, "/")
      b1 == safecpy(pathbuffer, outdir, MAXPATH)
      b2 == safecat(b1.dst, SLASH, MAXPATH)
      b3 == IF ptr = 0
            THEN safecat(b2.dst, inpath, MAXPATH)
            ELSE safecat(b2.dst, SubSeq(inpath, ptr + 1, Len(inpath)), MAXPATH)
      err0 == IF outdir = NULL THEN 0 ELSE b1.ret + b2.ret + b3.ret
      plainoutpath == IF outdir = NULL THEN inpath ELSE b3.dst
      o1 == safecpy(outpath, plainoutpath, MAXOUTPATH)
      o2 == safecat(o1.dst, ext, MAXOUTPATH)
      t1 == safecpy(tmppath, o2.dst, MAXTMPPATH)
      t2 == safecat(t1.dst, EXT_TMP, MAXTMPPATH)
  IN [err |-> err0 + o1.ret + o2.ret + t1.ret + t2.ret,
      outpath |-> o2.dst,
      tmppath |-> t2.dst,
      plainoutpath |-> plainoutpath,
      steps |-> IF outdir = NULL THEN 4 ELSE 7,
      rets |-> IF outdir = NULL THEN <<o1.ret, o2.ret, t1.ret, t2.ret>>
               ELSE <<b1.ret, b2.ret, b3.ret, o1.ret, o2.ret, t1.ret, t2.ret>>]

(***************************************************************************)
(* Command-line tokens                                                     *)
(***************************************************************************)
ARG_jpg == <<"-", "j", "p", "g">>
ARG_meta == <<"-", "m", "e", "t", "a">>
ARG_raw == <<"-", "r", "a", "w">>
ARG_tiff == <<"-", "t", "i", "f", "f">>
ARG_dng == <<"-", "d", "n", "g">>
ARG_ppm_ascii == <<"-", "p", "p", "m", "-", "a", "s", "c", "i", "i">>
ARG_ppm == <<"-", "p", "p", "m">>
ARG_histogram == <<"-", "h", "i", "s", "t", "o", "g", "r", "a", "m">>
ARG_loghist == <<"-", "l", "o", "g", "h", "i", "s", "t">>
ARG_color == <<"-", "c", "o", "l", "o", "r">>
ARG_o == <<"-", "o">>
ARG_unprocessed == <<"-", "u", "n", "p", "r", "o", "c", "e", "s", "s", "e", "d">>
ARG_qtop == <<"-", "q", "t", "o", "p">>
ARG_crop == <<"-", "c", "r", "o", "p">>
ARG_denoise == <<"-", "d", "e", "n", "o", "i", "s", "e">>
ARG_wb == <<"-", "w", "b">>
ARG_ocl == <<"-", "o", "c", "l">>
ARG_offset == <<"-", "o", "f", "f", "s", "e", "t">>
ARG_matrixmax == <<"-", "m", "a", "t", "r", "i", "x", "m", "a", "x">>
ARG_unknown == <<"-", "x">>

STR_sRGB == <<"s", "R", "G", "B">>
STR_AdobeRGB == <<"A", "d", "o", "b", "e", "R", "G", "B">>
STR_ProPhotoRGB == <<"P", "r", "o", "P", "h", "o", "t", "o", "R", "G", "B">>

\* every switch the parsing loop recognizes, and one it does not
AllArgs ==
  {ARG_jpg, ARG_meta, ARG_raw, ARG_tiff, ARG_dng, ARG_ppm_ascii, ARG_ppm,
   ARG_histogram, ARG_loghist, ARG_color, ARG_o, ARG_unprocessed, ARG_qtop,
   ARG_crop, ARG_denoise, ARG_wb, ARG_ocl, ARG_offset, ARG_matrixmax,
   ARG_unknown}

RecognizedArgs == AllArgs \ {ARG_unknown}

\* the switches that select the outputs and the output directory
DriverArgs == {ARG_jpg, ARG_meta, ARG_dng, ARG_o}

\* the switches that read argv[i+1]
ValueArgs == {ARG_color, ARG_o, ARG_wb, ARG_offset, ARG_matrixmax}

\* the tokens drawn for argv[i+1]
DIR_o == <<"o">>
DIR_missing == <<"n">>
DIR_file == <<"f">>
ArgValues(arg) ==
  IF arg = ARG_color THEN {STR_sRGB, STR_AdobeRGB, STR_ProPhotoRGB, <<"r", "g", "b">>}
  ELSE IF arg = ARG_o THEN {DIR_o, DIR_missing, DIR_file}
  ELSE IF arg = ARG_wb THEN {<<"A", "u", "t", "o">>, <<"S", "u", "n">>}
  ELSE IF arg = ARG_offset THEN {<<"7">>, <<"-", "1">>}
  ELSE IF arg = ARG_matrixmax THEN {<<"1", "2">>, <<"x">>}
  ELSE {<<>>}

\* the input files of the driver runs: a plain name, a name in a directory
\* with the same basename, and a name of MAXPATH+6 characters
FILE_c == <<"c">>
FILE_b_c == <<"b", "/", "c">>
FILE_long == <<"b", "/">> \o Rep("a", MAXPATH + 4)
InPaths == {FILE_c, FILE_b_c, FILE_long}

SeqsUpTo(S, n) == UNION {[1..k -> S] : k \in 0..n}

(***************************************************************************)
(* atoi: optional sign, then the leading decimal digits                    *)
(***************************************************************************)
DigitVal(c) ==
  CASE c = "0" -> 0 [] c = "1" -> 1 [] c = "2" -> 2 [] c = "3" -> 3
    [] c = "4" -> 4 [] c = "5" -> 5 [] c = "6" -> 6 [] c = "7" -> 7
    [] c = "8" -> 8 [] c = "9" -> 9 [] OTHER -> -1

RECURSIVE atoi_digits(_, _, _)
atoi_digits(s, k, acc) ==
  IF k > Len(s) \/ DigitVal(s[k]) < 0 THEN acc
  ELSE atoi_digits(s, k + 1, 10 * acc + DigitVal(s[k]))

atoi(s) ==
  IF Len(s) >= 1 /\ s[1] = "-" THEN 0 - atoi_digits(s, 2, 0)
  ELSE IF Len(s) >= 1 /\ s[1] = "+" THEN atoi_digits(s, 2, 0)
  ELSE atoi_digits(s, 1, 0)

(***************************************************************************)
(* The environment: the directories stat() finds, the collaborator's dump  *)
(* and rename().  A file system maps a path to the state of its content.   *)
(***************************************************************************)
Directories == {DIR_o}
NotDirectories == {DIR_file}

check_dir(Path) ==
  IF Path \notin Directories \cup NotDirectories THEN -1
  ELSE IF Path \notin Directories THEN -1
  ELSE 0

DumpOutcomes == {"ok", "fail_partial", "fail_nofile"}

\* x3f_dump_*(x3f, outfilename): writes the file it is given; a failed dump
\* leaves either no new file or a partially written one
x3f_dump(f, path, outcome) ==
  IF outcome = "fail_nofile" THEN f
  ELSE [p \in DOMAIN f \cup {path} |->
          IF p = path
          THEN (IF outcome = "ok" THEN "complete" ELSE "partial")
          ELSE f[p]]

rename(f, old, new, ok) ==
  IF ok /\ old \in DOMAIN f
  THEN [p \in (DOMAIN f \ {old}) \cup {new} |-> IF p = new THEN f[old] ELSE f[p]]
  ELSE f

EmptyFs == [p \in {} |-> "complete"]

(***************************************************************************)
(* State                                                                   *)
(***************************************************************************)
VARIABLES
  cfg,          \* the locals and globals the switches assign
  i,            \* index into argv; in the file loop, counted from the first file
  infiles,      \* the file list of argv
  pc,           \* position in main
  files, errors,
  exit_code,    \* -1 while the process runs
  opencl,       \* what x3f_set_use_opencl was given, -1 before
  infilename, f_in, x3f,
  tmpfilename, outfilename,
  ret,          \* the result of the last dump (ret, ret_dump)
  fs,           \* the files the run has written: path -> content state
  loaded,       \* collaborator loads invoked for the current file
  errors0,      \* the error count when the current file was opened
  failed,       \* steps that failed for the current file with an error counted
  published,    \* <<file number, kind>> of every output renamed to its final path
  failedOut,    \* <<file number, kind>> of every output whose dump or rename failed
  loadfail,     \* a preview, property or calibration load has failed
  touched,      \* calls made on files so far
  attempted,    \* the input files passed to fopen, in order
  fatal,        \* the fatal usage condition the command line has, if any
  pf,           \* the last direct call of a path function with its result
  seen,         \* the switches parsed so far, each with the argv entry after it
  live          \* the number of open input handles and of containers not deleted

cfgVars == <<cfg, opencl>>
fileVars == <<infilename, f_in, x3f, tmpfilename, outfilename, ret, loaded>>
histVars == <<errors0, failed, published, failedOut, loadfail, touched, attempted, fatal>>
vars == <<cfg, i, infiles, pc, files, errors, exit_code, opencl,
          infilename, f_in, x3f, tmpfilename, outfilename, ret, fs, loaded,
          errors0, failed, published, failedOut, loadfail, touched, attempted, fatal, pf, seen, live>>

NoneLive == [handles |-> 0, containers |-> 0]

\* main, lines 137-149, and the globals of the library the switches assign
DefaultCfg ==
  [extract_jpg |-> 0, extract_meta |-> 0, extract_raw |-> 1,
   crop |-> 0, denoise |-> 0, file_type |-> "DNG", color_encoding |-> "NONE",
   log_hist |-> 0, wb |-> NULL, use_opencl |-> 0, outdir |-> NULL,
   legacy_offset |-> 0, auto_legacy_offset |-> 1,
   max_printed_matrix_elements |-> 100]

InitWith(fl) ==
  /\ cfg = DefaultCfg
  /\ i = 1
  /\ infiles = fl
  /\ pc = "parse"
  /\ files = 0
  /\ errors = 0
  /\ exit_code = -1
  /\ opencl = -1
  /\ infilename = NULL
  /\ f_in = "NULL"
  /\ x3f = "NULL"
  /\ tmpfilename = NULL
  /\ outfilename = NULL
  /\ ret = X3F_OK
  /\ fs = EmptyFs
  /\ loaded = {}
  /\ errors0 = 0
  /\ failed = {}
  /\ published = {}
  /\ failedOut = {}
  /\ loadfail = FALSE
  /\ touched = {}
  /\ attempted = <<>>
  /\ fatal = "none"
  /\ pf = [op |-> "none"]
  /\ seen = <<>>
  /\ live = NoneLive

Init == \E fl \in SeqsUpTo(InPaths, MaxFiles) : InitWith(fl)

(***************************************************************************)
(* Argument parsing, main lines 157-213                                    *)
(***************************************************************************)
Parsed(c, adv) == [cfg |-> c, adv |-> adv, usage |-> FALSE, brk |-> FALSE]
Usage(c) == [cfg |-> c, adv |-> 0, usage |-> TRUE, brk |-> FALSE]
Break(c) == [cfg |-> c, adv |-> 0, usage |-> FALSE, brk |-> TRUE]

\* one iteration of the loop: arg is argv[i], more is (i+1)<argc and
\* val is argv[i+1]
parse_arg_lenient(c, arg, more, val) ==
  IF arg = ARG_jpg THEN Parsed([c EXCEPT !.extract_raw = 0, !.extract_jpg = 1], 1)
  ELSE IF arg = ARG_meta THEN Parsed([c EXCEPT !.extract_raw = 0, !.extract_meta = 1], 1)
  ELSE IF arg = ARG_raw THEN Parsed([c EXCEPT !.extract_raw = 1, !.file_type = "RAW"], 1)
  ELSE IF arg = ARG_tiff THEN Parsed([c EXCEPT !.extract_raw = 1, !.file_type = "TIFF"], 1)
  ELSE IF arg = ARG_dng THEN Parsed([c EXCEPT !.extract_raw = 1, !.file_type = "DNG"], 1)
  ELSE IF arg = ARG_ppm_ascii THEN Parsed([c EXCEPT !.extract_raw = 1, !.file_type = "PPMP3"], 1)
  ELSE IF arg = ARG_ppm THEN Parsed([c EXCEPT !.extract_raw = 1, !.file_type = "PPMP6"], 1)
  ELSE IF arg = ARG_histogram THEN Parsed([c EXCEPT !.extract_raw = 1, !.file_type = "HISTOGRAM"], 1)
  ELSE IF arg = ARG_loghist
    THEN Parsed([c EXCEPT !.extract_raw = 1, !.file_type = "HISTOGRAM", !.log_hist = 1], 1)
  ELSE IF arg = ARG_color /\ more
    THEN IF val = STR_sRGB THEN Parsed([c EXCEPT !.color_encoding = "SRGB"], 2)
         ELSE IF val = STR_AdobeRGB THEN Parsed([c EXCEPT !.color_encoding = "ARGB"], 2)
         ELSE IF val = STR_ProPhotoRGB THEN Parsed([c EXCEPT !.color_encoding = "PPRGB"], 2)
         ELSE Parsed(c, 2)
  ELSE IF arg = ARG_o /\ more THEN Parsed([c EXCEPT !.outdir = val], 2)
  ELSE IF arg = ARG_unprocessed THEN Parsed([c EXCEPT !.color_encoding = "UNPROCESSED"], 1)
  ELSE IF arg = ARG_qtop THEN Parsed([c EXCEPT !.color_encoding = "QTOP"], 1)
  ELSE IF arg = ARG_crop THEN Parsed([c EXCEPT !.crop = 1], 1)
  ELSE IF arg = ARG_denoise THEN Parsed([c EXCEPT !.denoise = 1], 1)
  ELSE IF arg = ARG_wb /\ more THEN Parsed([c EXCEPT !.wb = val], 2)
  ELSE IF arg = ARG_ocl THEN Parsed([c EXCEPT !.use_opencl = 1], 1)
  ELSE IF arg = ARG_offset /\ more
    THEN Parsed([c EXCEPT !.legacy_offset = atoi(val), !.auto_legacy_offset = 0], 2)
  ELSE IF arg = ARG_matrixmax /\ more
    THEN Parsed([c EXCEPT !.max_printed_matrix_elements = atoi(val)], 2)
  ELSE IF Len(arg) >= 1 /\ arg[1] = "-" THEN Parsed(c, 1)
  ELSE Break(c)

\* -o and the raw kinds are taken only the first time
parse_arg_first_wins(c, arg, more, val) ==
  IF arg = ARG_o /\ more /\ c.outdir # NULL THEN Parsed(c, 2)
  ELSE IF arg = ARG_tiff /\ c.file_type # "DNG" THEN Parsed(c, 1)
  ELSE IF arg = ARG_jpg THEN Parsed([c EXCEPT !.extract_raw = 0, !.extract_jpg = 1], 1)
  ELSE IF arg = ARG_meta THEN Parsed([c EXCEPT !.extract_raw = 0, !.extract_meta = 1], 1)
  ELSE IF arg = ARG_raw THEN Parsed([c EXCEPT !.extract_raw = 1, !.file_type = "RAW"], 1)
  ELSE IF arg = ARG_tiff THEN Parsed([c EXCEPT !.extract_raw = 1, !.file_type = "TIFF"], 1)
  ELSE IF arg = ARG_dng THEN Parsed([c EXCEPT !.extract_raw = 1, !.file_type = "DNG"], 1)
  ELSE IF arg = ARG_ppm_ascii THEN Parsed([c EXCEPT !.extract_raw = 1, !.file_type = "PPMP3"], 1)
  ELSE IF arg = ARG_ppm THEN Parsed([c EXCEPT !.extract_raw = 1, !.file_type = "PPMP6"], 1)
  ELSE IF arg = ARG_histogram THEN Parsed([c EXCEPT !.extract_raw = 1, !.file_type = "HISTOGRAM"], 1)
  ELSE IF arg = ARG_loghist
    THEN Parsed([c EXCEPT !.extract_raw = 1, !.file_type = "HISTOGRAM", !.log_hist = 1], 1)
  ELSE IF arg = ARG_color /\ more
    THEN IF val = STR_sRGB THEN Parsed([c EXCEPT !.color_encoding = "SRGB"], 2)
         ELSE IF val = STR_AdobeRGB THEN Parsed([c EXCEPT !.color_encoding = "ARGB"], 2)
         ELSE IF val = STR_ProPhotoRGB THEN Parsed([c EXCEPT !.color_encoding = "PPRGB"], 2)
         ELSE Usage(c)
  ELSE IF arg = ARG_o /\ more THEN Parsed([c EXCEPT !.outdir = val], 2)
  ELSE IF arg = ARG_unprocessed THEN Parsed([c EXCEPT !.color_encoding = "UNPROCESSED"], 1)
  ELSE IF arg = ARG_qtop THEN Parsed([c EXCEPT !.color_encoding = "QTOP"], 1)
  ELSE IF arg = ARG_crop THEN Parsed([c EXCEPT !.crop = 1], 1)
  ELSE IF arg = ARG_denoise THEN Parsed([c EXCEPT !.denoise = 1], 1)
  ELSE IF arg = ARG_wb /\ more THEN Parsed([c EXCEPT !.wb = val], 2)
  ELSE IF arg = ARG_ocl THEN Parsed([c EXCEPT !.use_opencl = 1], 1)
  ELSE IF arg = ARG_offset /\ more
    THEN Parsed([c EXCEPT !.legacy_offset = atoi(val), !.auto_legacy_offset = 0], 2)
  ELSE IF arg = ARG_matrixmax /\ more
    THEN Parsed([c EXCEPT !.max_printed_matrix_elements = atoi(val)], 2)
  ELSE IF Len(arg) >= 1 /\ arg[1] = "-" THEN Usage(c)
  ELSE Break(c)

\* a raw kind switches the preview and the metadata off, -histogram the log scale
parse_arg_exclusive(c, arg, more, val) ==
  IF arg = ARG_jpg THEN Parsed([c EXCEPT !.extract_raw = 0, !.extract_jpg = 1], 1)
  ELSE IF arg = ARG_meta THEN Parsed([c EXCEPT !.extract_raw = 0, !.extract_meta = 1], 1)
  ELSE IF arg = ARG_raw THEN Parsed([c EXCEPT !.extract_raw = 1, !.file_type = "RAW"], 1)
  ELSE IF arg = ARG_tiff THEN Parsed([c EXCEPT !.extract_raw = 1, !.file_type = "TIFF"], 1)
  ELSE IF arg = ARG_dng
    THEN Parsed([c EXCEPT !.extract_raw = 1, !.file_type = "DNG", !.extract_jpg = 0,
                          !.extract_meta = 0], 1)
  ELSE IF arg = ARG_ppm_ascii THEN Parsed([c EXCEPT !.extract_raw = 1, !.file_type = "PPMP3"], 1)
  ELSE IF arg = ARG_ppm THEN Parsed([c EXCEPT !.extract_raw = 1, !.file_type = "PPMP6"], 1)
  ELSE IF arg = ARG_histogram
    THEN Parsed([c EXCEPT !.extract_raw = 1, !.file_type = "HISTOGRAM", !.log_hist = 0], 1)
  ELSE IF arg = ARG_loghist
    THEN Parsed([c EXCEPT !.extract_raw = 1, !.file_type = "HISTOGRAM", !.log_hist = 1], 1)
  ELSE IF arg = ARG_color /\ more
    THEN IF val = STR_sRGB THEN Parsed([c EXCEPT !.color_encoding = "SRGB"], 2)
         ELSE IF val = STR_AdobeRGB THEN Parsed([c EXCEPT !.color_encoding = "ARGB"], 2)
         ELSE IF val = STR_ProPhotoRGB THEN Parsed([c EXCEPT !.color_encoding = "PPRGB"], 2)
         ELSE Usage(c)
  ELSE IF arg = ARG_o /\ more THEN Parsed([c EXCEPT !.outdir = val], 2)
  ELSE IF arg = ARG_unprocessed THEN Parsed([c EXCEPT !.color_encoding = "UNPROCESSED"], 1)
  ELSE IF arg = ARG_qtop THEN Parsed([c EXCEPT !.color_encoding = "QTOP"], 1)
  ELSE IF arg = ARG_crop THEN Parsed([c EXCEPT !.crop = 1], 1)
  ELSE IF arg = ARG_denoise THEN Parsed([c EXCEPT !.denoise = 1], 1)
  ELSE IF arg = ARG_wb /\ more THEN Parsed([c EXCEPT !.wb = val], 2)
  ELSE IF arg = ARG_ocl THEN Parsed([c EXCEPT !.use_opencl = 1], 1)
  ELSE IF arg = ARG_offset /\ more
    THEN Parsed([c EXCEPT !.legacy_offset = atoi(val), !.auto_legacy_offset = 0], 2)
  ELSE IF arg = ARG_matrixmax /\ more
    THEN Parsed([c EXCEPT !.max_printed_matrix_elements = atoi(val)], 2)
  ELSE IF Len(arg) >= 1 /\ arg[1] = "-" THEN Usage(c)
  ELSE Break(c)

\* -jpg only switches the raw extraction off
parse_arg_rawoff(c, arg, more, val) ==
  IF arg = ARG_jpg THEN Parsed([c EXCEPT !.extract_raw = 0], 1)
  ELSE IF arg = ARG_meta THEN Parsed([c EXCEPT !.extract_raw = 0, !.extract_meta = 1], 1)
  ELSE IF arg = ARG_raw THEN Parsed([c EXCEPT !.extract_raw = 1, !.file_type = "RAW"], 1)
  ELSE IF arg = ARG_tiff THEN Parsed([c EXCEPT !.extract_raw = 1, !.file_type = "TIFF"], 1)
  ELSE IF arg = ARG_dng THEN Parsed([c EXCEPT !.extract_raw = 1, !.file_type = "DNG"], 1)
  ELSE IF arg = ARG_ppm_ascii THEN Parsed([c EXCEPT !.extract_raw = 1, !.file_type = "PPMP3"], 1)
  ELSE IF arg = ARG_ppm THEN Parsed([c EXCEPT !.extract_raw = 1, !.file_type = "PPMP6"], 1)
  ELSE IF arg = ARG_histogram THEN Parsed([c EXCEPT !.extract_raw = 1, !.file_type = "HISTOGRAM"], 1)
  ELSE IF arg = ARG_loghist
    THEN Parsed([c EXCEPT !.extract_raw = 1, !.file_type = "HISTOGRAM", !.log_hist = 1], 1)
  ELSE IF arg = ARG_color /\ more
    THEN IF val = STR_sRGB THEN Parsed([c EXCEPT !.color_encoding = "SRGB"], 2)
         ELSE IF val = STR_AdobeRGB THEN Parsed([c EXCEPT !.color_encoding = "ARGB"], 2)
         ELSE IF val = STR_ProPhotoRGB THEN Parsed([c EXCEPT !.color_encoding = "PPRGB"], 2)
         ELSE Usage(c)
  ELSE IF arg = ARG_o /\ more THEN Parsed([c EXCEPT !.outdir = val], 2)
  ELSE IF arg = ARG_unprocessed THEN Parsed([c EXCEPT !.color_encoding = "UNPROCESSED"], 1)
  ELSE IF arg = ARG_qtop THEN Parsed([c EXCEPT !.color_encoding = "QTOP"], 1)
  ELSE IF arg = ARG_crop THEN Parsed([c EXCEPT !.crop = 1], 1)
  ELSE IF arg = ARG_denoise THEN Parsed([c EXCEPT !.denoise = 1], 1)
  ELSE IF arg = ARG_wb /\ more THEN Parsed([c EXCEPT !.wb = val], 2)
  ELSE IF arg = ARG_ocl THEN Parsed([c EXCEPT !.use_opencl = 1], 1)
  ELSE IF arg = ARG_offset /\ more
    THEN Parsed([c EXCEPT !.legacy_offset = atoi(val), !.auto_legacy_offset = 0], 2)
  ELSE IF arg = ARG_matrixmax /\ more
    THEN Parsed([c EXCEPT !.max_printed_matrix_elements = atoi(val)], 2)
  ELSE IF Len(arg) >= 1 /\ arg[1] = "-" THEN Usage(c)
  ELSE Break(c)

parse_arg(c, arg, more, val) ==
  IF arg = ARG_jpg THEN Parsed([c EXCEPT !.extract_raw = 0, !.extract_jpg = 1], 1)
  ELSE IF arg = ARG_meta THEN Parsed([c EXCEPT !.extract_raw = 0, !.extract_meta = 1], 1)
  ELSE IF arg = ARG_raw THEN Parsed([c EXCEPT !.extract_raw = 1, !.file_type = "RAW"], 1)
  ELSE IF arg = ARG_tiff THEN Parsed([c EXCEPT !.extract_raw = 1, !.file_type = "TIFF"], 1)
  ELSE IF arg = ARG_dng THEN Parsed([c EXCEPT !.extract_raw = 1, !.file_type = "DNG"], 1)
  ELSE IF arg = ARG_ppm_ascii THEN Parsed([c EXCEPT !.extract_raw = 1, !.file_type = "PPMP3"], 1)
  ELSE IF arg = ARG_ppm THEN Parsed([c EXCEPT !.extract_raw = 1, !.file_type = "PPMP6"], 1)
  ELSE IF arg = ARG_histogram THEN Parsed([c EXCEPT !.extract_raw = 1, !.file_type = "HISTOGRAM"], 1)
  ELSE IF arg = ARG_loghist
    THEN Parsed([c EXCEPT !.extract_raw = 1, !.file_type = "HISTOGRAM", !.log_hist = 1], 1)
  ELSE IF arg = ARG_color /\ more
    THEN IF val = STR_sRGB THEN Parsed([c EXCEPT !.color_encoding = "SRGB"], 2)
         ELSE IF val = STR_AdobeRGB THEN Parsed([c EXCEPT !.color_encoding = "ARGB"], 2)
         ELSE IF val = STR_ProPhotoRGB THEN Parsed([c EXCEPT !.color_encoding = "PPRGB"], 2)
         ELSE Usage(c)
  ELSE IF arg = ARG_o /\ more THEN Parsed([c EXCEPT !.outdir = val], 2)
  ELSE IF arg = ARG_unprocessed THEN Parsed([c EXCEPT !.color_encoding = "UNPROCESSED"], 1)
  ELSE IF arg = ARG_qtop THEN Parsed([c EXCEPT !.color_encoding = "QTOP"], 1)
  ELSE IF arg = ARG_crop THEN Parsed([c EXCEPT !.crop = 1], 1)
  ELSE IF arg = ARG_denoise THEN Parsed([c EXCEPT !.denoise = 1], 1)
  ELSE IF arg = ARG_wb /\ more THEN Parsed([c EXCEPT !.wb = val], 2)
  ELSE IF arg = ARG_ocl THEN Parsed([c EXCEPT !.use_opencl = 1], 1)
  ELSE IF arg = ARG_offset /\ more
    THEN Parsed([c EXCEPT !.legacy_offset = atoi(val), !.auto_legacy_offset = 0], 2)
  ELSE IF arg = ARG_matrixmax /\ more
    THEN Parsed([c EXCEPT !.max_printed_matrix_elements = atoi(val)], 2)
  ELSE IF Len(arg) >= 1 /\ arg[1] = "-" THEN Usage(c)
  ELSE Break(c)

\* the fatal usage condition of the token at argv[i], read off the command
\* line alone: a switch that needs a value and is the last token, a color
\* name that is none of the three, a dash token that is no switch
FatalToken(arg, more, val) ==
  IF arg \in ValueArgs /\ ~more THEN "missing"
  ELSE IF arg = ARG_color /\ val \notin {STR_sRGB, STR_AdobeRGB, STR_ProPhotoRGB} THEN "color"
  ELSE IF Len(arg) >= 1 /\ arg[1] = "-" /\ arg \notin RecognizedArgs THEN "flag"
  ELSE "none"

Exit(code) ==
  /\ pc' = "exit"
  /\ exit_code' = code

\* one iteration of the for loop at line 157 on a switch
ParseArg(arg, more, val) ==
  /\ pc = "parse"
  /\ ~more => infiles = <<>>
  /\ LET r == parse_arg(cfg, arg, more, val)
     IN /\ ~r.brk
        /\ cfg' = r.cfg
        /\ fatal' = IF fatal # "none" THEN fatal ELSE FatalToken(arg, more, val)
        /\ IF r.usage
           THEN Exit(1) /\ UNCHANGED <<i, seen>>
           ELSE /\ i' = i + r.adv
                /\ seen' = Append(seen, <<arg, val>>)
                /\ UNCHANGED <<pc, exit_code>>
  /\ UNCHANGED <<infiles, files, errors, opencl, fs, pf, live>>
  /\ UNCHANGED fileVars
  /\ UNCHANGED <<errors0, failed, published, failedOut, loadfail, touched, attempted>>

\* the loop ends: argv[i] is the first file name (break), or i = argc
EndArgs ==
  /\ pc = "parse"
  /\ infiles # <<>> => parse_arg(cfg, infiles[1], TRUE, <<>>).brk
  /\ i' = 1
  /\ pc' = "check_dir"
  /\ fatal' = IF fatal = "none" /\ infiles = <<>> THEN "nofiles" ELSE fatal
  /\ seen' = <<>>
  /\ UNCHANGED <<cfg, infiles, files, errors, exit_code, opencl, fs, pf, live>>
  /\ UNCHANGED fileVars
  /\ UNCHANGED <<errors0, failed, published, failedOut, loadfail, touched, attempted>>

\* lines 215-220
CheckDir ==
  /\ pc = "check_dir"
  /\ IF cfg.outdir # NULL /\ check_dir(cfg.outdir) # 0
     THEN Exit(1) /\ UNCHANGED opencl
     ELSE /\ opencl' = cfg.use_opencl
          /\ pc' = "loop"
          /\ UNCHANGED exit_code
  /\ fatal' = IF fatal = "none" /\ cfg.outdir # NULL /\ cfg.outdir \notin Directories
              THEN "outdir" ELSE fatal
  /\ UNCHANGED <<cfg, i, infiles, files, errors, fs, pf, seen, live>>
  /\ UNCHANGED fileVars
  /\ UNCHANGED <<errors0, failed, published, failedOut, loadfail, touched, attempted>>

(***************************************************************************)
(* The file loop, main lines 222-389                                       *)
(***************************************************************************)
\* the number of the current input file in the file list
cur == i

\* the tests of lines 242, 267, 274 and 297 that select the next block
AfterMeta == IF cfg.extract_raw = 1 THEN "raw_load" ELSE "clean_up"
\* the raw block is taken before the metadata block
AfterPropCamf_rawfirst ==
  IF cfg.extract_raw = 1 THEN "raw_load"
  ELSE IF cfg.extract_meta = 1 THEN "meta_paths" ELSE "clean_up"

AfterPropCamf == IF cfg.extract_meta = 1 THEN "meta_paths" ELSE AfterMeta
AfterJpg ==
  IF cfg.extract_meta = 1 \/ cfg.extract_raw = 1 THEN "prop_camf_load" ELSE AfterMeta
AfterOpen == IF cfg.extract_jpg = 1 THEN "jpg_load" ELSE AfterJpg

\* what an uninitialized path buffer may hold: nothing, a short string, or
\* no terminator within the buffer
Garbage == {<<>>, <<"?">>, Rep("?", MAXTMPPATH + 1)}

Fail(step, what) == failed' = failed \cup {<<step, what>>}

\* lines 222-232
OpenFile ==
  /\ pc = "loop"
  /\ cur <= Len(infiles)
  /\ infilename' = infiles[cur]
  /\ x3f' = "NULL"
  /\ files' = files + 1
  /\ touched' = touched \cup {"fopen"}
  /\ attempted' = Append(attempted, infiles[cur])
  /\ errors0' = errors
  /\ \E h \in {"NULL", "FILE"} :
       /\ f_in' = h
       /\ live' = [live EXCEPT !.handles = IF h = "NULL" THEN @ ELSE @ + 1]
       /\ IF h = "NULL"
          THEN pc' = "found_error" /\ failed' = {<<"open", "file">>}
          ELSE pc' = "new_from_file" /\ failed' = {}
  /\ UNCHANGED <<cfg, i, infiles, errors, exit_code, opencl, fs, pf, seen>>
  /\ UNCHANGED <<tmpfilename, outfilename, ret, loaded>>
  /\ UNCHANGED <<published, failedOut, loadfail, fatal>>

\* lines 234-240
NewFromFile ==
  /\ pc = "new_from_file"
  /\ \E r \in {"NULL", "x3f"} :
       /\ x3f' = r
       /\ live' = [live EXCEPT !.containers = IF r = "NULL" THEN @ ELSE @ + 1]
       /\ IF r = "NULL"
          THEN pc' = "found_error" /\ Fail("parse", "file")
          ELSE pc' = AfterOpen /\ UNCHANGED failed
  /\ UNCHANGED <<cfg, i, infiles, files, errors, exit_code, opencl, fs, pf, seen>>
  /\ UNCHANGED <<infilename, f_in, tmpfilename, outfilename, ret, loaded>>
  /\ UNCHANGED <<errors0, published, failedOut, loadfail, touched, attempted, fatal>>

\* line 247: the result of x3f_load_data is dropped
JpgLoad ==
  /\ pc = "jpg_load"
  /\ loaded' = loaded \cup {"thumb_jpeg"}
  /\ \E r \in {X3F_OK, X3F_ERR} :
       loadfail' = (loadfail \/ r # X3F_OK)
  /\ pc' = "jpg_paths"
  /\ UNCHANGED failed
  /\ UNCHANGED <<cfg, i, infiles, files, errors, exit_code, opencl, fs, pf, seen, live>>
  /\ UNCHANGED <<infilename, f_in, x3f, tmpfilename, outfilename, ret>>
  /\ UNCHANGED <<errors0, published, failedOut, touched, attempted, fatal>>

\* lines 267-272: the results of both calls are dropped
PropCamfLoad ==
  /\ pc = "prop_camf_load"
  /\ loaded' = loaded \cup {"prop", "camf"}
  /\ \E r1 \in {X3F_OK, X3F_ERR}, r2 \in {X3F_OK, X3F_ERR} :
       loadfail' = (loadfail \/ r1 # X3F_OK \/ r2 # X3F_OK)
  /\ pc' = AfterPropCamf
  /\ UNCHANGED failed
  /\ UNCHANGED <<cfg, i, infiles, files, errors, exit_code, opencl, fs, pf, seen, live>>
  /\ UNCHANGED <<infilename, f_in, x3f, tmpfilename, outfilename, ret>>
  /\ UNCHANGED <<errors0, published, failedOut, touched, attempted, fatal>>

\* the sensor data is decoded for every kind
RawLoad_decoded ==
  /\ pc = "raw_load"
  /\ loaded' = loaded \cup {"raw_data"}
  /\ \E r \in {X3F_OK, X3F_ERR} :
       IF X3F_OK # r
       THEN pc' = "found_error" /\ Fail("load", "raw")
       ELSE pc' = "raw_paths" /\ UNCHANGED failed
  /\ UNCHANGED <<cfg, i, infiles, files, errors, exit_code, opencl, fs, pf, seen, live>>
  /\ UNCHANGED <<infilename, f_in, x3f, tmpfilename, outfilename, ret>>
  /\ UNCHANGED <<errors0, published, failedOut, loadfail, touched, attempted, fatal>>

\* lines 302-313
RawLoad ==
  /\ pc = "raw_load"
  /\ loaded' = loaded \cup {IF cfg.file_type = "RAW" THEN "raw_block" ELSE "raw_data"}
  /\ \E r \in {X3F_OK, X3F_ERR} :
       IF X3F_OK # r
       THEN pc' = "found_error" /\ Fail("load", "raw")
       ELSE pc' = "raw_paths" /\ UNCHANGED failed
  /\ UNCHANGED <<cfg, i, infiles, files, errors, exit_code, opencl, fs, pf, seen, live>>
  /\ UNCHANGED <<infilename, f_in, x3f, tmpfilename, outfilename, ret>>
  /\ UNCHANGED <<errors0, published, failedOut, loadfail, touched, attempted, fatal>>

\* if (make_paths(infilename, outdir, ext, tmpfilename, outfilename))
\*   goto found_error;
MakePathsOrFail_continue(kind, ext, next) ==
  /\ \E g1 \in Garbage, g2 \in Garbage, g3 \in Garbage :
       LET r == make_paths(infilename, cfg.outdir, ext, g1, g2, g3)
       IN IF r.err # 0
          THEN /\ pc' = (IF kind = "jpg" THEN AfterJpg
                         ELSE IF kind = "meta" THEN AfterMeta ELSE "clean_up")
               /\ Fail("path", kind)
               /\ errors' = errors + 1
               /\ UNCHANGED <<tmpfilename, outfilename>>
          ELSE /\ pc' = next
               /\ tmpfilename' = r.tmppath
               /\ outfilename' = r.outpath
               /\ UNCHANGED <<failed, errors>>
  /\ UNCHANGED <<cfg, i, infiles, files, exit_code, opencl, fs, pf, seen, live>>
  /\ UNCHANGED <<infilename, f_in, x3f, ret, loaded>>
  /\ UNCHANGED <<errors0, published, failedOut, loadfail, touched, attempted, fatal>>

MakePathsOrFail(kind, ext, next) ==
  /\ \E g1 \in Garbage, g2 \in Garbage, g3 \in Garbage :
       LET r == make_paths(infilename, cfg.outdir, ext, g1, g2, g3)
       IN IF r.err # 0
          THEN /\ pc' = "found_error"
               /\ Fail("path", kind)
               /\ UNCHANGED <<tmpfilename, outfilename>>
          ELSE /\ pc' = next
               /\ tmpfilename' = r.tmppath
               /\ outfilename' = r.outpath
               /\ UNCHANGED failed
  /\ UNCHANGED <<cfg, i, infiles, files, errors, exit_code, opencl, fs, pf, seen, live>>
  /\ UNCHANGED <<infilename, f_in, x3f, ret, loaded>>
  /\ UNCHANGED <<errors0, published, failedOut, loadfail, touched, attempted, fatal>>

\* ret = x3f_dump_...(x3f, tmpfilename, ...); if (X3F_OK != ret) errors++;
DumpOrCount_rename_anyway(kind, rename_pc, after) ==
  /\ \E o \in DumpOutcomes :
       /\ fs' = x3f_dump(fs, tmpfilename, o)
       /\ ret' = IF o = "ok" THEN X3F_OK ELSE X3F_ERR
       /\ IF o # "ok"
          THEN /\ errors' = errors + 1
               /\ Fail("dump", kind)
               /\ failedOut' = failedOut \cup {<<cur, kind>>}
          ELSE UNCHANGED <<errors, failed, failedOut>>
       /\ pc' = rename_pc
       /\ UNCHANGED <<tmpfilename, outfilename>>
  /\ touched' = touched \cup {"dump"}
  /\ UNCHANGED <<cfg, i, infiles, files, exit_code, opencl, pf, seen, live>>
  /\ UNCHANGED <<infilename, f_in, x3f, loaded>>
  /\ UNCHANGED <<errors0, published, loadfail, attempted, fatal>>

\* a failed dump jumps to found_error
DumpOrCount_abort(kind, rename_pc, after) ==
  /\ \E o \in DumpOutcomes :
       /\ fs' = x3f_dump(fs, tmpfilename, o)
       /\ IF o # "ok"
          THEN /\ Fail("dump", kind)
               /\ failedOut' = failedOut \cup {<<cur, kind>>}
               /\ pc' = "found_error"
               /\ tmpfilename' = NULL
               /\ outfilename' = NULL
               /\ ret' = X3F_OK
          ELSE /\ pc' = rename_pc
               /\ ret' = X3F_OK
               /\ UNCHANGED <<failed, failedOut, tmpfilename, outfilename>>
  /\ touched' = touched \cup {"dump"}
  /\ UNCHANGED <<cfg, i, infiles, files, errors, exit_code, opencl, pf, seen, live>>
  /\ UNCHANGED <<infilename, f_in, x3f, loaded>>
  /\ UNCHANGED <<errors0, published, loadfail, attempted, fatal>>

DumpOrCount(kind, rename_pc, after) ==
  /\ \E o \in DumpOutcomes :
       /\ fs' = x3f_dump(fs, tmpfilename, o)
       /\ IF o # "ok"
          THEN /\ errors' = errors + 1
               /\ Fail("dump", kind)
               /\ failedOut' = failedOut \cup {<<cur, kind>>}
               /\ pc' = after
               /\ tmpfilename' = NULL
               /\ outfilename' = NULL
               /\ ret' = X3F_OK
          ELSE /\ pc' = rename_pc
               /\ ret' = X3F_OK
               /\ UNCHANGED <<errors, failed, failedOut, tmpfilename, outfilename>>
  /\ touched' = touched \cup {"dump"}
  /\ UNCHANGED <<cfg, i, infiles, files, exit_code, opencl, pf, seen, live>>
  /\ UNCHANGED <<infilename, f_in, x3f, loaded>>
  /\ UNCHANGED <<errors0, published, loadfail, attempted, fatal>>

\* a failed rename is not counted
RenameOrCount_nocount(kind, after) ==
  /\ \E ok \in BOOLEAN :
       /\ fs' = rename(fs, tmpfilename, outfilename, ok)
       /\ IF ok /\ tmpfilename \in DOMAIN fs
          THEN /\ published' = published \cup {<<cur, kind>>}
               /\ UNCHANGED <<errors, failed, failedOut>>
          ELSE /\ Fail("rename", kind)
               /\ UNCHANGED errors
               /\ failedOut' = failedOut \cup {<<cur, kind>>}
               /\ UNCHANGED published
  /\ touched' = touched \cup {"rename"}
  /\ pc' = after
  /\ tmpfilename' = NULL
  /\ outfilename' = NULL
  /\ ret' = X3F_OK
  /\ UNCHANGED <<cfg, i, infiles, files, exit_code, opencl, pf, seen, live>>
  /\ UNCHANGED <<infilename, f_in, x3f, loaded>>
  /\ UNCHANGED <<errors0, loadfail, attempted, fatal>>

\* a failed rename removes the temporary file
RenameOrCount_unlink(kind, after) ==
  /\ \E ok \in BOOLEAN :
       /\ fs' = IF ok /\ tmpfilename \in DOMAIN fs
                THEN rename(fs, tmpfilename, outfilename, ok)
                ELSE [p \in DOMAIN fs \ {tmpfilename} |-> fs[p]]
       /\ IF ok /\ tmpfilename \in DOMAIN fs
          THEN /\ published' = published \cup {<<cur, kind>>}
               /\ UNCHANGED <<errors, failed, failedOut>>
          ELSE /\ errors' = errors + 1
               /\ Fail("rename", kind)
               /\ failedOut' = failedOut \cup {<<cur, kind>>}
               /\ UNCHANGED published
  /\ touched' = touched \cup {"rename"}
  /\ pc' = after
  /\ tmpfilename' = NULL
  /\ outfilename' = NULL
  /\ ret' = X3F_OK
  /\ UNCHANGED <<cfg, i, infiles, files, exit_code, opencl, pf, seen, live>>
  /\ UNCHANGED <<infilename, f_in, x3f, loaded>>
  /\ UNCHANGED <<errors0, loadfail, attempted, fatal>>

\* if (rename(tmpfilename, outfilename) != 0) errors++;
RenameOrCount(kind, after) ==
  /\ \E ok \in BOOLEAN :
       /\ fs' = rename(fs, tmpfilename, outfilename, ok)
       /\ IF ok /\ tmpfilename \in DOMAIN fs
          THEN /\ published' = published \cup {<<cur, kind>>}
               /\ UNCHANGED <<errors, failed, failedOut>>
          ELSE /\ errors' = errors + 1
               /\ Fail("rename", kind)
               /\ failedOut' = failedOut \cup {<<cur, kind>>}
               /\ UNCHANGED published
  /\ touched' = touched \cup {"rename"}
  /\ pc' = after
  /\ tmpfilename' = NULL
  /\ outfilename' = NULL
  /\ ret' = X3F_OK
  /\ UNCHANGED <<cfg, i, infiles, files, exit_code, opencl, pf, seen, live>>
  /\ UNCHANGED <<infilename, f_in, x3f, loaded>>
  /\ UNCHANGED <<errors0, loadfail, attempted, fatal>>

RawExt ==
  CASE cfg.file_type = "RAW" -> EXT_RAW
    [] cfg.file_type = "TIFF" -> EXT_TIF
    [] cfg.file_type = "DNG" -> EXT_DNG
    [] cfg.file_type \in {"PPMP3", "PPMP6"} -> EXT_PPM
    [] cfg.file_type = "HISTOGRAM" -> EXT_CSV

JpgPaths == pc = "jpg_paths" /\ MakePathsOrFail("jpg", EXT_JPG, "jpg_dump")
JpgDump == pc = "jpg_dump" /\ DumpOrCount("jpg", "jpg_rename", AfterJpg)
JpgRename == pc = "jpg_rename" /\ RenameOrCount("jpg", AfterJpg)
MetaPaths == pc = "meta_paths" /\ MakePathsOrFail("meta", EXT_META, "meta_dump")
MetaDump == pc = "meta_dump" /\ DumpOrCount("meta", "meta_rename", AfterMeta)
MetaRename == pc = "meta_rename" /\ RenameOrCount("meta", AfterMeta)
RawPaths == pc = "raw_paths" /\ MakePathsOrFail("raw", RawExt, "raw_dump")
RawDump == pc = "raw_dump" /\ DumpOrCount("raw", "raw_rename", "clean_up")
RawRename == pc = "raw_rename" /\ RenameOrCount("raw", "clean_up")

\* found_error without errors++
FoundError_nocount ==
  /\ pc = "found_error"
  /\ pc' = "clean_up"
  /\ UNCHANGED <<cfg, i, infiles, files, errors, exit_code, opencl, fs, pf, seen, live>>
  /\ UNCHANGED fileVars
  /\ UNCHANGED histVars

\* found_error leaves the file loop
FoundError_abort ==
  /\ pc = "found_error"
  /\ errors' = errors + 1
  /\ Exit(1)
  /\ UNCHANGED <<cfg, i, infiles, files, opencl, fs, pf, seen, live>>
  /\ UNCHANGED fileVars
  /\ UNCHANGED histVars

\* lines 379-381
FoundError ==
  /\ pc = "found_error"
  /\ errors' = errors + 1
  /\ pc' = "clean_up"
  /\ UNCHANGED <<cfg, i, infiles, files, exit_code, opencl, fs, pf, seen, live>>
  /\ UNCHANGED fileVars
  /\ UNCHANGED histVars

\* clean_up that closes the input only when a container was made
CleanUp_leak ==
  /\ pc = "clean_up"
  /\ x3f' = "NULL"
  /\ f_in' = "NULL"
  /\ live' = [handles |-> IF x3f # "NULL" THEN live.handles - 1 ELSE live.handles,
              containers |-> IF x3f # "NULL" THEN live.containers - 1
                             ELSE live.containers]
  /\ infilename' = NULL
  /\ loaded' = {}
  /\ failed' = {}
  /\ i' = i + 1
  /\ pc' = "loop"
  /\ errors0' = errors
  /\ UNCHANGED <<cfg, infiles, files, errors, exit_code, opencl, fs, pf, seen>>
  /\ UNCHANGED <<tmpfilename, outfilename, ret>>
  /\ UNCHANGED <<published, failedOut, loadfail, touched, attempted, fatal>>

\* lines 383-389 and the i++ of the loop: x3f_delete(x3f), and fclose(f_in)
\* if f_in is not NULL
CleanUp ==
  /\ pc = "clean_up"
  /\ x3f' = "NULL"
  /\ f_in' = "NULL"
  /\ live' = [handles |-> IF f_in # "NULL" THEN live.handles - 1 ELSE live.handles,
              containers |-> IF x3f # "NULL" THEN live.containers - 1
                             ELSE live.containers]
  /\ infilename' = NULL
  /\ loaded' = {}
  /\ failed' = {}
  /\ i' = i + 1
  /\ pc' = "loop"
  /\ errors0' = errors
  /\ UNCHANGED <<cfg, infiles, files, errors, exit_code, opencl, fs, pf, seen>>
  /\ UNCHANGED <<tmpfilename, outfilename, ret>>
  /\ UNCHANGED <<published, failedOut, loadfail, touched, attempted, fatal>>

\* lines 391-396, reached when the loop test i<argc fails
Summary ==
  /\ pc = "loop"
  /\ cur > Len(infiles)
  /\ IF files = 0 THEN Exit(1) ELSE Exit(IF errors > 0 THEN 1 ELSE 0)
  /\ UNCHANGED <<cfg, i, infiles, files, errors, opencl, fs, pf, seen, live>>
  /\ UNCHANGED fileVars
  /\ UNCHANGED histVars

FileStep ==
  \/ OpenFile \/ NewFromFile
  \/ JpgLoad \/ JpgPaths \/ JpgDump \/ JpgRename
  \/ PropCamfLoad
  \/ MetaPaths \/ MetaDump \/ MetaRename
  \/ RawLoad \/ RawPaths \/ RawDump \/ RawRename
  \/ FoundError \/ CleanUp \/ Summary

Next ==
  \/ /\ i <= MaxOpts
     /\ \E arg \in DriverArgs, more \in BOOLEAN : \E val \in ArgValues(arg) :
          ParseArg(arg, more, val)
  \/ EndArgs
  \/ CheckDir
  \/ FileStep

Spec == Init /\ [][Next]_vars

(***************************************************************************)
(* Runs over every switch, with a short file list                          *)
(***************************************************************************)
InitArgs == \E fl \in SeqsUpTo({FILE_c}, MaxArgFiles) : InitWith(fl)

NextArgs ==
  \/ /\ Len(seen) < MaxFlags
     /\ \E arg \in AllArgs, more \in BOOLEAN : \E val \in ArgValues(arg) :
          ParseArg(arg, more, val)
  \/ EndArgs
  \/ CheckDir
  \/ FileStep

SpecArgs == InitArgs /\ [][NextArgs]_vars

(***************************************************************************)
(* Batches: the extraction switches without -o, main run to its end        *)
(***************************************************************************)
BatchArgs == {ARG_jpg, ARG_meta, ARG_dng}
BatchPaths == {FILE_c, FILE_long}

InitBatch == \E fl \in SeqsUpTo(BatchPaths, MaxFiles) : InitWith(fl)

NextBatch ==
  \/ /\ i <= MaxOpts
     /\ \E arg \in BatchArgs, more \in BOOLEAN : \E val \in ArgValues(arg) :
          ParseArg(arg, more, val)
  \/ EndArgs
  \/ CheckDir
  \/ FileStep

\* main is sequential code: a step that can be taken is taken
FairSpec == InitBatch /\ [][NextBatch]_vars /\ WF_vars(NextBatch)

(***************************************************************************)
(* Direct calls of the path functions                                      *)
(***************************************************************************)
ShortStrs == SeqsUpTo({"a", "/"}, MaxLen + 1)
Capacities == (0..MaxLen) \cup {MAXPATH, MAXOUTPATH, MAXTMPPATH}
StrsAround(cap) ==
  IF cap <= MaxLen THEN ShortStrs
  ELSE {Rep("a", n) : n \in {cap - 1, cap, cap + 1}} \cup {<<>>, <<"a">>}
DstsAround(cap) ==
  IF cap <= MaxLen THEN ShortStrs
  ELSE {Rep("d", n) : n \in {cap - 1, cap, cap + 1}} \cup {<<>>, <<"d">>}

PathInputs ==
  SeqsUpTo({"a", "/"}, 2)
    \cup {Rep("a", n) : n \in {MAXPATH - 2, MAXPATH, MAXPATH + 1, MAXPATH + 5,
                               MAXPATH + 6, MAXPATH + 7, MAXTMPPATH + 1}}
    \cup {<<"b", "/">> \o Rep("a", n) : n \in {MAXPATH - 3, MAXPATH - 2, MAXPATH - 1}}
    \cup {<<"c", ".", "x">>, <<"a", "/", "b", "/", "c", ".", "x">>}
OutDirInputs ==
  {NULL, <<>>, DIR_o, <<"o", "/", "p">>}
    \cup {Rep("d", n) : n \in {MAXPATH - 2, MAXPATH - 1, MAXPATH, MAXPATH + 1}}
Extensions == {EXT_JPG, EXT_META, EXT_RAW, EXT_TIF, EXT_DNG, EXT_PPM, EXT_CSV}
BufferGarbage == {<<>>, Rep("?", MAXTMPPATH + 1)}

InitPaths == InitWith(<<>>)

pathUnchanged ==
  UNCHANGED <<cfg, i, infiles, pc, files, errors, exit_code, opencl,
              infilename, f_in, x3f, tmpfilename, outfilename, ret, fs, loaded,
              errors0, failed, published, failedOut, loadfail, touched,
              attempted, fatal, seen, live>>

CallSafecpy ==
  /\ pf.op = "none"
  /\ \E cap \in Capacities : \E dst \in {<<>>, <<"d">>}, src \in StrsAround(cap) :
       pf' = [op |-> "safecpy", dst |-> dst, src |-> src, dst_size |-> cap,
              r |-> safecpy(dst, src, cap)]
  /\ pathUnchanged

CallSafecat ==
  /\ pf.op = "none"
  /\ \E cap \in Capacities : \E dst \in DstsAround(cap), src \in StrsAround(cap) :
       pf' = [op |-> "safecat", dst |-> dst, src |-> src, dst_size |-> cap,
              r |-> safecat(dst, src, cap)]
  /\ pathUnchanged

CallMakePaths ==
  /\ pf.op = "none"
  /\ \E inpath \in PathInputs, outdir \in OutDirInputs, ext \in Extensions :
       \E g1 \in BufferGarbage, g2 \in BufferGarbage, g3 \in BufferGarbage :
         pf' = [op |-> "make_paths", inpath |-> inpath, outdir |-> outdir,
                ext |-> ext, r |-> make_paths(inpath, outdir, ext, g1, g2, g3)]
  /\ pathUnchanged

NextPaths == CallSafecpy \/ CallSafecat \/ CallMakePaths

SpecPaths == InitPaths /\ [][NextPaths]_vars

(***************************************************************************)
(* What the paths are meant to be, stated without the bounded copies       *)
(***************************************************************************)
RECURSIVE BaseName(_)
BaseName(s) ==
  IF \A k \in 1..Len(s) : s[k] # "/" THEN s ELSE BaseName(Tail(s))

BasePath(inpath, outdir) ==
  IF outdir = NULL THEN inpath ELSE outdir \o SLASH \o BaseName(inpath)
FinalPath(inpath, outdir, ext) == BasePath(inpath, outdir) \o ext
TmpPath(inpath, outdir, ext) == FinalPath(inpath, outdir, ext) \o EXT_TMP

(***************************************************************************)
(* Properties of the path functions (SpecPaths)                            *)
(***************************************************************************)

\* C7: whenever make_paths succeeds, the final path is input + ext without
\* an output directory and outdir + "/" + (the input after its last '/')
\* + ext with one, the input's own extension is kept, and the temporary
\* path is the final path + ".tmp".
C7_PathSynthesis ==
  (pf.op = "make_paths" /\ pf.r.err = 0) =>
     /\ pf.r.outpath = FinalPath(pf.inpath, pf.outdir, pf.ext)
     /\ pf.r.tmppath = pf.r.outpath \o EXT_TMP

C7_Witness ==
  /\ pf.op = "make_paths"
  /\ pf.r.err = 0
  /\ pf.inpath = <<"a", "/", "b", "/", "c", ".", "x">>
  /\ pf.outdir = <<"o", "/", "p">>
  /\ pf.ext = EXT_DNG
  /\ pf.r.outpath = <<"o", "/", "p", "/", "c", ".", "x", ".", "d", "n", "g">>

\* C8: safecpy succeeds and copies src verbatim when len(src) <= cap and
\* fails leaving dst untouched when len(src) >= cap+1; safecat succeeds and
\* appends src when len(dst)+len(src) <= cap and otherwise fails leaving dst
\* untouched; a successful result is never longer than cap.
C8_BoundedCopy ==
  /\ pf.op = "safecpy" =>
       /\ Len(pf.src) <= pf.dst_size => (pf.r.ret = 0 /\ pf.r.dst = pf.src)
       /\ Len(pf.src) >= pf.dst_size + 1 => (pf.r.ret = 1 /\ pf.r.dst = pf.dst)
       /\ pf.r.ret = 0 => Len(pf.r.dst) <= pf.dst_size
  /\ pf.op = "safecat" =>
       /\ Len(pf.dst) + Len(pf.src) <= pf.dst_size =>
            (pf.r.ret = 0 /\ pf.r.dst = pf.dst \o pf.src)
       /\ Len(pf.dst) + Len(pf.src) > pf.dst_size =>
            (pf.r.ret = 1 /\ pf.r.dst = pf.dst)
       /\ pf.r.ret = 0 => Len(pf.r.dst) <= pf.dst_size

C8_Witness ==
  /\ pf.op = "safecpy"
  /\ pf.dst_size = MAXPATH
  /\ Len(pf.src) = MAXPATH
  /\ pf.r.ret = 0
  /\ pf.r.dst = pf.src

\* C9 as stated: make_paths succeeds if and only if the input/base path is
\* at most MAXPATH, the final path at most MAXPATH+EXTMAX and the temporary
\* path at most MAXPATH+2*EXTMAX characters.
C9_AsStated ==
  pf.op = "make_paths" =>
    (pf.r.err = 0 <=>
       /\ Len(BasePath(pf.inpath, pf.outdir)) <= MAXPATH
       /\ Len(FinalPath(pf.inpath, pf.outdir, pf.ext)) <= MAXPATH + EXTMAX
       /\ Len(TmpPath(pf.inpath, pf.outdir, pf.ext)) <= MAXPATH + 2 * EXTMAX)

\* C9 amended: the base path is checked against MAXPATH only when an output
\* directory is given; make_paths succeeds if and only if that holds, the
\* final path is at most MAXPATH+EXTMAX and the temporary path at most
\* MAXPATH+2*EXTMAX characters, and on success both results are within
\* their bounds and not truncated.
C9_PathBounds ==
  pf.op = "make_paths" =>
    /\ pf.r.err = 0 <=>
         /\ pf.outdir # NULL => Len(BasePath(pf.inpath, pf.outdir)) <= MAXPATH
         /\ Len(FinalPath(pf.inpath, pf.outdir, pf.ext)) <= MAXPATH + EXTMAX
         /\ Len(TmpPath(pf.inpath, pf.outdir, pf.ext)) <= MAXPATH + 2 * EXTMAX
    /\ pf.r.err = 0 =>
         /\ Len(pf.r.outpath) <= MAXPATH + EXTMAX
         /\ Len(pf.r.tmppath) <= MAXPATH + 2 * EXTMAX
         /\ pf.r.outpath = FinalPath(pf.inpath, pf.outdir, pf.ext)
         /\ pf.r.tmppath = TmpPath(pf.inpath, pf.outdir, pf.ext)

C9_Witness ==
  /\ pf.op = "make_paths"
  /\ pf.outdir = NULL
  /\ Len(pf.inpath) = MAXPATH + 5
  /\ pf.ext = EXT_META
  /\ pf.r.err = 0
  /\ Len(pf.r.outpath) = MAXPATH + EXTMAX

(***************************************************************************)
(* Properties of the driver                                                *)
(***************************************************************************)
Kinds == {"jpg", "meta", "raw"}
Requested ==
  {k \in Kinds : \/ k = "jpg" /\ cfg.extract_jpg = 1
                 \/ k = "meta" /\ cfg.extract_meta = 1
                 \/ k = "raw" /\ cfg.extract_raw = 1}
KindExt(k) == IF k = "jpg" THEN EXT_JPG ELSE IF k = "meta" THEN EXT_META ELSE RawExt
LaterKinds(k) ==
  IF k = "jpg" THEN {"meta", "raw"} ELSE IF k = "meta" THEN {"raw"} ELSE {}
IsTmp(p) == Len(p) >= 4 /\ SubSeq(p, Len(p) - 3, Len(p)) = EXT_TMP
\* the final path of output k of input file number n
OutFinal(n, k) == FinalPath(infiles[n], cfg.outdir, KindExt(k))
Renaming == pc \in {"jpg_rename", "meta_rename", "raw_rename"}
RenamingKind ==
  IF pc = "jpg_rename" THEN "jpg" ELSE IF pc = "meta_rename" THEN "meta" ELSE "raw"
\* output k2 of the current file got as far as a step of its own
OutputAttempted(k2) ==
  \/ <<cur, k2>> \in published
  \/ \E st \in {"load", "path", "dump", "rename"} : <<st, k2>> \in failed

C1_FinalsComplete == \A p \in DOMAIN fs : ~IsTmp(p) => fs[p] = "complete"

C1_Step ==
  /\ Renaming =>
       /\ ret = X3F_OK
       /\ outfilename = OutFinal(cur, RenamingKind)
       /\ tmpfilename = outfilename \o EXT_TMP
       /\ tmpfilename \in DOMAIN fs
       /\ fs[tmpfilename] = "complete"
  /\ \A p \in DOMAIN fs' :
       (~IsTmp(p) /\ p \notin DOMAIN fs) =>
          (Renaming /\ p = outfilename /\ tmpfilename \notin DOMAIN fs')
  /\ ~Renaming =>
       \A p \in DOMAIN fs' :
         (p \notin DOMAIN fs \/ fs'[p] # fs[p]) =>
            (IsTmp(p) /\ p = tmpfilename /\ \A n \in 1..Len(infiles) :
                                             \A k \in Kinds : p # OutFinal(n, k))

\* C1: a file exists under a final path only as the result of a rename of
\* the corresponding temporary path made after the dump to that temporary
\* path returned success; a dump writes the temporary path only and no
\* rename follows a failed dump, so every file under a final name is
\* complete.
C1_AtomicPublish == []C1_FinalsComplete /\ [][C1_Step]_vars

C1_Witness ==
  /\ \E o \in published : OutFinal(o[1], o[2]) \in DOMAIN fs
  /\ \E p \in DOMAIN fs : IsTmp(p) /\ fs[p] = "partial"

\* C2 as stated: at the end of the run every output whose dump and rename
\* succeeded has a file at its final path and none at final path + ".tmp",
\* in every batch.
C2_AsStated ==
  pc = "exit" =>
    \A o \in published :
      /\ OutFinal(o[1], o[2]) \in DOMAIN fs
      /\ OutFinal(o[1], o[2]) \o EXT_TMP \notin DOMAIN fs

\* C2 amended: every output whose dump and rename succeeded has a complete
\* file at its final path from then on, and at the end of the run a file is
\* at final path + ".tmp" only if a later input file mapped to the same
\* final path and its dump or rename failed.
C2_Published ==
  \A o \in published :
    /\ OutFinal(o[1], o[2]) \in DOMAIN fs
    /\ fs[OutFinal(o[1], o[2])] = "complete"
    /\ (pc = "exit" /\ OutFinal(o[1], o[2]) \o EXT_TMP \in DOMAIN fs) =>
          \E q \in failedOut :
             q[1] > o[1] /\ OutFinal(q[1], q[2]) = OutFinal(o[1], o[2])

C2_Witness ==
  /\ pc = "exit"
  /\ cfg.outdir = DIR_o
  /\ infiles = <<FILE_c, FILE_b_c>>
  /\ published = {<<1, "raw">>, <<2, "raw">>}
  /\ DOMAIN fs = {<<"o", "/", "c", ".", "d", "n", "g">>}

AllPublished ==
  \A n \in 1..Len(infiles) : \A k \in Requested : <<n, k>> \in published

\* C3 as stated: in a run that reaches the summary the exit code is 1 if
\* and only if errors > 0, and it is 0 only when every requested output of
\* every input file succeeded in every step, loads included.
C3_AsStated ==
  (pc = "exit" /\ fatal = "none") =>
     /\ exit_code = 1 <=> errors > 0
     /\ exit_code = 0 => (AllPublished /\ ~loadfail)

\* What the exit code does tell (C3 without the ignored loads): in a run
\* that reaches the summary the exit code is 1 if and only if errors > 0,
\* and it is 0 only when every input file was opened and parsed and every
\* requested output of every file was published.
C3_ExitCode ==
  (pc = "exit" /\ fatal = "none") =>
     /\ exit_code \in {0, 1}
     /\ exit_code = 1 <=> errors > 0
     /\ exit_code = 0 => (AllPublished /\ failedOut = {} /\ attempted = infiles)

C3_Witness ==
  /\ pc = "exit"
  /\ fatal = "none"
  /\ exit_code = 0
  /\ loadfail
  /\ Len(infiles) = 2
  /\ AllPublished

C4_Safety ==
  /\ Len(attempted) <= Len(infiles)
  /\ attempted = SubSeq(infiles, 1, Len(attempted))
  /\ files = Len(attempted)
  /\ (pc = "exit" /\ fatal = "none") => (attempted = infiles /\ files = Len(infiles))
  /\ (pc = "clean_up" /\ failed = {}) => \A k \in Requested : <<cur, k>> \in published
  /\ \A o \in published : OutFinal(o[1], o[2]) \in DOMAIN fs

\* C4: the run terminates; the input files are attempted once each in
\* command-line order, files equals their number at the end, and a file
\* with no failure of its own has all its requested outputs published
\* whatever happened to earlier files.
C4_BatchContinuation == <>(pc = "exit") /\ []C4_Safety

C4_Witness ==
  /\ pc = "exit"
  /\ Len(infiles) = 2
  /\ files = 2
  /\ errors = 1
  /\ exit_code = 1
  /\ published = {<<2, "raw">>}
  /\ failedOut = {}

C10_FatalUsage ==
  fatal # "none" =>
    /\ files = 0
    /\ touched = {}
    /\ attempted = <<>>
    /\ f_in = "NULL"
    /\ fs = EmptyFs
    /\ fatal # "nofiles" => pc = "exit"
    /\ pc \in {"check_dir", "loop", "exit"}
    /\ pc = "exit" => exit_code = 1

C10_Witness ==
  /\ fatal = "outdir"
  /\ infiles # <<>>
  /\ cfg.extract_jpg = 1
  /\ pc = "exit"
  /\ exit_code = 1

\* what the switch arg with the argv entry val after it assigns, lines 157-209
Assigned(arg, val) ==
  IF arg = ARG_jpg THEN [extract_raw |-> 0, extract_jpg |-> 1]
  ELSE IF arg = ARG_meta THEN [extract_raw |-> 0, extract_meta |-> 1]
  ELSE IF arg = ARG_raw THEN [extract_raw |-> 1, file_type |-> "RAW"]
  ELSE IF arg = ARG_tiff THEN [extract_raw |-> 1, file_type |-> "TIFF"]
  ELSE IF arg = ARG_dng THEN [extract_raw |-> 1, file_type |-> "DNG"]
  ELSE IF arg = ARG_ppm_ascii THEN [extract_raw |-> 1, file_type |-> "PPMP3"]
  ELSE IF arg = ARG_ppm THEN [extract_raw |-> 1, file_type |-> "PPMP6"]
  ELSE IF arg = ARG_histogram THEN [extract_raw |-> 1, file_type |-> "HISTOGRAM"]
  ELSE IF arg = ARG_loghist
    THEN [extract_raw |-> 1, file_type |-> "HISTOGRAM", log_hist |-> 1]
  ELSE IF arg = ARG_color
    THEN [color_encoding |-> IF val = STR_sRGB THEN "SRGB"
                             ELSE IF val = STR_AdobeRGB THEN "ARGB" ELSE "PPRGB"]
  ELSE IF arg = ARG_o THEN [outdir |-> val]
  ELSE IF arg = ARG_unprocessed THEN [color_encoding |-> "UNPROCESSED"]
  ELSE IF arg = ARG_qtop THEN [color_encoding |-> "QTOP"]
  ELSE IF arg = ARG_crop THEN [crop |-> 1]
  ELSE IF arg = ARG_denoise THEN [denoise |-> 1]
  ELSE IF arg = ARG_wb THEN [wb |-> val]
  ELSE IF arg = ARG_ocl THEN [use_opencl |-> 1]
  ELSE IF arg = ARG_offset THEN [legacy_offset |-> atoi(val), auto_legacy_offset |-> 0]
  ELSE [max_printed_matrix_elements |-> atoi(val)]

\* the positions in seen of the switches that assign field
Assigning(field) ==
  {k \in 1..Len(seen) : field \in DOMAIN Assigned(seen[k][1], seen[k][2])}

LastAssigned(field) ==
  IF Assigning(field) = {} THEN DefaultCfg[field]
  ELSE LET k == CHOOSE n \in Assigning(field) : \A m \in Assigning(field) : m <= n
       IN Assigned(seen[k][1], seen[k][2])[field]

LastWinsFields ==
  {"file_type", "extract_raw", "color_encoding", "outdir", "wb",
   "legacy_offset", "max_printed_matrix_elements"}

\* C11: after any sequence of recognized switches each of the fields raw
\* kind, raw extraction on/off, color encoding, output directory,
\* white-balance preset, legacy offset and matrix maximum holds the value
\* assigned by the last switch of the sequence that assigns it, or its
\* default (DNG, raw on, no color, no directory, no preset) when none does;
\* and a sequence of recognized switches with their values is never
\* rejected.
C11_LastFlagWins ==
  /\ pc = "parse" =>
       /\ \A field \in LastWinsFields : cfg[field] = LastAssigned(field)
       /\ \A k \in 1..Len(seen) : seen[k][1] \in RecognizedArgs
  /\ (pc = "exit" /\ files = 0) =>
       fatal \in {"flag", "color", "missing", "outdir", "nofiles"}

C11_Witness ==
  /\ pc = "parse"
  /\ seen = <<<<ARG_o, DIR_o>>, <<ARG_o, DIR_missing>>>>
  /\ cfg.outdir = DIR_missing

SeenArgs == {seen[k][1] : k \in 1..Len(seen)}

\* C19: after any sequence of recognized switches, the preview, the
\* metadata, crop, denoise, the log scale and OpenCL are each on if and only
\* if -jpg, -meta, -crop, -denoise, -loghist, -ocl is among the switches; no
\* later switch turns one of them off.
C19_StickyToggles ==
  pc = "parse" =>
    /\ cfg.extract_jpg = 1 <=> ARG_jpg \in SeenArgs
    /\ cfg.extract_meta = 1 <=> ARG_meta \in SeenArgs
    /\ cfg.crop = 1 <=> ARG_crop \in SeenArgs
    /\ cfg.denoise = 1 <=> ARG_denoise \in SeenArgs
    /\ cfg.log_hist = 1 <=> ARG_loghist \in SeenArgs
    /\ cfg.use_opencl = 1 <=> ARG_ocl \in SeenArgs
    /\ \A f \in {"extract_jpg", "extract_meta", "crop", "denoise", "log_hist",
                 "use_opencl"} : cfg[f] \in {0, 1}

C19_Witness ==
  /\ pc = "parse"
  /\ seen = <<<<ARG_loghist, <<>>>>, <<ARG_histogram, <<>>>>>>
  /\ cfg.log_hist = 1
  /\ cfg.file_type = "HISTOGRAM"

\* C20: after any sequence of recognized switches the preview, the metadata
\* or the raw extraction is requested, so a file that opens and parses has
\* an output attempted, and no file is counted without an attempted output
\* or an error.
C20_SomeOutput ==
  /\ Requested # {}
  /\ (pc = "clean_up" /\ x3f # "NULL") => \E k \in Requested : OutputAttempted(k)
  /\ pc = "clean_up" =>
       \/ \E k \in Requested : OutputAttempted(k)
       \/ errors > errors0

C20_Witness ==
  /\ pc = "clean_up"
  /\ x3f # "NULL"
  /\ cfg.extract_raw = 0
  /\ cfg.extract_meta = 1
  /\ cfg.extract_jpg = 0
  /\ published = {<<1, "meta">>}
  /\ errors = 0

(***************************************************************************)
(* Properties of the file loop                                             *)
(***************************************************************************)
\* the steps that hand the container to the library
UsePcs == {"jpg_load", "jpg_dump", "prop_camf_load", "meta_dump", "raw_load", "raw_dump"}
BetweenFiles == {"parse", "check_dir", "loop", "exit"}

\* C12: whatever way the iteration of a file ends, the container is
\* deleted and the input handle, if opened, is closed before the next file
\* is opened: at most one handle and one container are live, f_in and x3f
\* are the live ones whenever they are used, and none is live between two
\* files or at the exit.
C12_Cleanup ==
  /\ live.handles = (IF f_in = "NULL" THEN 0 ELSE 1)
  /\ live.containers = (IF x3f = "NULL" THEN 0 ELSE 1)
  /\ pc \in BetweenFiles => live = NoneLive
  /\ pc \in UsePcs => live = [handles |-> 1, containers |-> 1]
  /\ x3f # "NULL" => f_in # "NULL"

C12_Witness ==
  /\ pc = "loop"
  /\ files = 1
  /\ errors = 1
  /\ touched = {"fopen"}
  /\ Len(infiles) = 2
  /\ live = NoneLive

\* the outputs of the current file with a failed step of their own
OwnFailed ==
  {k \in Kinds : \E st \in {"load", "path", "dump", "rename"} : <<st, k>> \in failed}
\* the requested outputs of the current file that are not published
NotPublished == {k \in Requested : <<cur, k>> \notin published}

\* C13 as stated: processing one file adds one to files, and adds to errors
\* the number of requested outputs of the file that were not produced, or
\* exactly one when the file did not open or parse.
C13_AsStated ==
  pc = "clean_up" =>
    /\ files = cur
    /\ errors = errors0 + (IF x3f = "NULL" THEN 1 ELSE Cardinality(NotPublished))

\* C13 amended: processing one file adds one to files, and adds to errors
\* one for every requested output that had a failing step of its own
\* (sensor load, path synthesis, dump, rename), or exactly one when the
\* file did not open or parse. A path or sensor load failure abandons the
\* later outputs of the file, and these are not counted although they are
\* not produced.
C13_ErrorAccounting ==
  pc = "clean_up" =>
    /\ files = cur
    /\ files = Len(attempted)
    /\ errors = errors0 + (IF x3f = "NULL" THEN 1 ELSE Cardinality(OwnFailed))
    /\ x3f # "NULL" => Cardinality(failed) = Cardinality(OwnFailed)
    /\ OwnFailed \subseteq NotPublished
    /\ x3f = "NULL" => NotPublished = Requested

C13_Witness ==
  /\ pc = "clean_up"
  /\ failed = {<<"dump", "jpg">>, <<"path", "meta">>}
  /\ cfg.extract_raw = 1
  /\ NotPublished = Kinds
  /\ errors = errors0 + 2

\* C14 as stated: whenever a load of the preview, of the property list or
\* the calibration data, or of the sensor data fails, the error counter
\* grows and the run ends with exit code 1.
C14_AsStated ==
  /\ (pc = "found_error" /\ <<"load", "raw">> \in failed) => cfg.extract_raw = 1
  /\ (pc = "clean_up" /\ <<"load", "raw">> \in failed) => errors > errors0
  /\ (pc = "exit" /\ fatal = "none" /\ loadfail) => (errors > 0 /\ exit_code = 1)

NextBlock(kind) ==
  IF kind = "jpg" THEN AfterJpg ELSE IF kind = "meta" THEN AfterMeta ELSE "clean_up"

C15_Step ==
  /\ (Renaming /\ <<"rename", RenamingKind>> \in failed') =>
        /\ errors' = errors + 1
        /\ fs' = fs
        /\ tmpfilename \in DOMAIN fs' /\ fs'[tmpfilename] = "complete"
        /\ <<cur, RenamingKind>> \notin published'
        /\ pc' = NextBlock(RenamingKind)
        /\ pc' # "found_error"
  /\ \A p \in DOMAIN fs \ DOMAIN fs' :
        Renaming /\ p = tmpfilename /\ <<cur, RenamingKind>> \in published'

\* C15: when the dump of an output succeeded and the rename of its
\* temporary path fails, errors grows by exactly one, the files on disk stay
\* as they are (the complete temporary file is left, nothing new is under
\* the final name), and the run goes on with the next block of the file; a
\* file is removed from a temporary path only by a successful rename.
C15_PublishFailure == [][C15_Step]_vars

C15_Witness ==
  /\ pc = "clean_up"
  /\ failed = {<<"rename", "raw">>}
  /\ errors = 1
  /\ infilename = FILE_c
  /\ DOMAIN fs = {FILE_c \o EXT_DNG \o EXT_TMP}
  /\ fs[FILE_c \o EXT_DNG \o EXT_TMP] = "complete"

(***************************************************************************)
(* Properties of the steps inside make_paths (SpecPaths)                   *)
(***************************************************************************)
\* the position of the first failed step, 0 when none failed
FirstFailure(rets) ==
  IF \A k \in 1..Len(rets) : rets[k] = 0 THEN 0
  ELSE CHOOSE k \in 1..Len(rets) :
         rets[k] # 0 /\ \A m \in 1..(k - 1) : rets[m] = 0

\* C16 as stated: inside make_paths, once one bounded copy or concatenation
\* has failed no later one is executed: the failed step is the last step.
C16_AsStated ==
  (pf.op = "make_paths" /\ pf.r.err # 0) =>
     pf.r.steps = FirstFailure(pf.r.rets)

(***************************************************************************)
(* Properties of the loads and of the order of the blocks                  *)
(***************************************************************************)
SensorLoad == IF cfg.file_type = "RAW" THEN "raw_block" ELSE "raw_data"

\* C17: the preview is loaded only if -jpg is requested, the property list
\* and the calibration data only if the metadata or a raw kind is
\* requested, the sensor data only if a raw kind is requested, as an
\* undecoded block exactly for the kind RAW and decoded for every other
\* kind; and every dump comes after the loads it needs.
C17_OnDemandLoading ==
  /\ "thumb_jpeg" \in loaded => cfg.extract_jpg = 1
  /\ loaded \cap {"prop", "camf"} # {} =>
       (cfg.extract_meta = 1 \/ cfg.extract_raw = 1)
  /\ loaded \cap {"raw_block", "raw_data"} # {} =>
       (cfg.extract_raw = 1 /\ loaded \cap {"raw_block", "raw_data"} = {SensorLoad})
  /\ "raw_block" \in loaded <=> (cfg.file_type = "RAW" /\ "raw_data" \notin loaded
                                  /\ loaded \cap {"raw_block", "raw_data"} # {})
  /\ pc \in {"jpg_dump", "jpg_rename"} => "thumb_jpeg" \in loaded
  /\ pc \in {"meta_dump", "meta_rename"} => {"prop", "camf"} \subseteq loaded
  /\ pc \in {"raw_dump", "raw_rename"} => {"prop", "camf", SensorLoad} \subseteq loaded
  /\ pc \in BetweenFiles => loaded = {}

C17_Witness ==
  /\ pc = "raw_dump"
  /\ cfg.file_type = "RAW"
  /\ cfg.extract_jpg = 0
  /\ cfg.extract_meta = 1
  /\ loaded = {"prop", "camf", "raw_block"}

\* the position of a step of the file body in the text of the loop
Rank(p) ==
  CASE p = "new_from_file" -> 1
    [] p = "jpg_load" -> 2
    [] p = "jpg_paths" -> 3
    [] p = "jpg_dump" -> 4
    [] p = "jpg_rename" -> 5
    [] p = "prop_camf_load" -> 6
    [] p = "meta_paths" -> 7
    [] p = "meta_dump" -> 8
    [] p = "meta_rename" -> 9
    [] p = "raw_load" -> 10
    [] p = "raw_paths" -> 11
    [] p = "raw_dump" -> 12
    [] p = "raw_rename" -> 13
    [] p = "found_error" -> 14
    [] p = "clean_up" -> 15
    [] OTHER -> 0

KindPcs(k) ==
  IF k = "jpg" THEN {"jpg_load", "jpg_paths", "jpg_dump", "jpg_rename"}
  ELSE IF k = "meta" THEN {"meta_paths", "meta_dump", "meta_rename"}
  ELSE {"raw_load", "raw_paths", "raw_dump", "raw_rename"}

\* the output whose block is running
CurrentKind ==
  IF pc \in KindPcs("jpg") THEN "jpg"
  ELSE IF pc \in KindPcs("meta") THEN "meta" ELSE "raw"

C18_OneAtATime ==
  /\ \A k \in Kinds :
       pc \in KindPcs(k) =>
         /\ k \in Requested
         /\ ~OutputAttempted(k)
         /\ \A k0 \in Requested : k \in LaterKinds(k0) => OutputAttempted(k0)
         /\ \A k2 \in LaterKinds(k) :
              /\ ~OutputAttempted(k2)
              /\ k2 = "raw" => loaded \cap {"raw_block", "raw_data"} = {}
  /\ pc \in {"jpg_dump", "jpg_rename", "meta_dump", "meta_rename",
             "raw_dump", "raw_rename"} =>
       /\ outfilename = OutFinal(cur, CurrentKind)
       /\ tmpfilename = outfilename \o EXT_TMP
  /\ pc \notin BetweenFiles => (Len(attempted) = cur /\ infilename = infiles[cur])
  /\ \A o \in published \cup failedOut :
       o[1] <= cur /\ (pc \in BetweenFiles => o[1] < cur)

C18_Step ==
  /\ pc \notin BetweenFiles =>
       IF pc = "clean_up" THEN pc' = "loop" /\ i' = i + 1
       ELSE Rank(pc') > Rank(pc) /\ i' = i
  /\ (pc = "loop" /\ pc' # "exit") =>
       (pc' \in {"new_from_file", "found_error"} /\ live = NoneLive /\ i' = i)

\* C18: files are handled one at a time in the order of the command line,
\* and within a file the requested outputs one at a time in the order
\* preview, metadata, raw (the order of the blocks of the loop body; the
\* order of the switches plays no part): when an output's steps run every
\* requested earlier output is finished, published or with its error
\* recorded, no later output has started, and the file is cleaned up
\* before the next one is opened.
C18_Sequential == []C18_OneAtATime /\ [][C18_Step]_vars

C18_Witness ==
  /\ pc = "raw_dump"
  /\ cur = 2
  /\ cfg.extract_jpg = 1
  /\ cfg.extract_meta = 1
  /\ <<2, "jpg">> \in published
  /\ <<"dump", "meta">> \in failed
  /\ <<1, "raw">> \in failedOut

====
